---- MODULE Spec2Model ----
(***************************************************************************)
(* IDBKV: a promise wrapper around one IndexedDB object store.            *)
(*                                                                         *)
(* Two implementations live in the repository: the lazy one               *)
(* (src/unnamed/part_000: the connection is opened by resolve() on first  *)
(* access and cached in `instance`) and the eager one (src/src/index.ts:  *)
(* the constructor calls open() and keeps the promise).  A handle of the  *)
(* model is of either variant.                                             *)
(*                                                                         *)
(* Granularity.  JavaScript runs one task at a time and drains the        *)
(* microtask queue before the next task.  One action of the model is one  *)
(* task: a caller invoking a method, or the host delivering the           *)
(* success/error event of one request, together with all the promise      *)
(* continuations that event triggers.  The host is IndexedDB: open        *)
(* requests of one database are served in order, transactions whose       *)
(* scopes overlap run in creation order unless both are read-only, and a  *)
(* request either succeeds or fails (a failed request aborts its          *)
(* transaction, so it changes nothing).                                    *)
(***************************************************************************)
EXTENDS Integers, Sequences, FiniteSets, TLC

\* ---- bounds of the model ----
MaxHandles == 2
MaxOps == 3
MaxVal == 1
MaxFaults == 1

\* ---- inputs ----
DBNames == {"db1", "db2"}
StoreNames == {"kv", "other"}
Variants == {"lazy", "eager"}
Keys == {1, 2}

\* The absent-marker: JavaScript's undefined.
Undef == -1

Vals == 0 .. MaxVal

NoFn == [f |-> "none", async |-> FALSE, fails |-> FALSE]
\* the transforms a caller passes to update: v => (v ?? 0) + 1, returned
\* directly or as a promise, or a transform that throws / rejects
FnInputs == {[f |-> "inc", async |-> a, fails |-> x] : a \in BOOLEAN, x \in BOOLEAN}

Inc(v) == IF v = Undef THEN 1 ELSE v + 1
ApplyFn(fn, v) == IF fn.f = "inc" THEN Inc(v) ELSE v

ReadKinds == {"get", "has", "keys", "values"}
WriteKinds == {"set", "delete", "clear", "update"}
KeyedKinds == {"get", "has", "set", "delete", "update"}

Call(kind, key, val, fn) == [kind |-> kind, key |-> key, val |-> val, fn |-> fn]

PointCalls ==
    {Call(k, key, Undef, NoFn) : k \in {"get", "has", "delete"}, key \in Keys}
    \cup {Call("set", key, v, NoFn) : key \in Keys, v \in Vals}
ScanCalls == {Call(k, 0, Undef, NoFn) : k \in {"clear", "keys", "values"}}
UpdateCalls == {Call("update", key, Undef, fn) : key \in Keys, fn \in FnInputs}

VARIABLES
    handles,   \* the Store Handles constructed so far
    reqs,      \* the open requests issued to the host, in issue order
    ops,       \* the invocations of public methods, in invocation order
    txq,       \* the live transactions of the host, in creation order
    version,   \* host: the version of each database (0: does not exist)
    stores,    \* host: the object stores that exist, as <<db, store>>
    table,     \* host: the records of each object store
    faults,    \* the number of errors the host has signalled
    lastw      \* history: per store and key, the last write that resolved

vars == <<handles, reqs, ops, txq, version, stores, table, faults, lastw>>

NoError == [type |-> "none", src |-> 0]

\* ---- the host's object store requests ----
Rec(k, v) == [key |-> k, val |-> v]
HasRecord(t, k) == \E r \in t : r.key = k

StoreGet(t, k) == IF HasRecord(t, k) THEN (CHOOSE r \in t : r.key = k).val ELSE Undef
StoreGetKey(t, k) == IF HasRecord(t, k) THEN k ELSE Undef
StorePut(t, k, v) == {r \in t : r.key # k} \cup {Rec(k, v)}
StoreDelete(t, k) == {r \in t : r.key # k}
StoreClear(t) == {}

RECURSIVE SortedRecords(_)
SortedRecords(t) ==
    IF t = {} THEN <<>>
    ELSE LET m == CHOOSE r \in t : \A s \in t : r.key < s.key \/ (r.key = s.key /\ r.val <= s.val)
         IN <<m>> \o SortedRecords(t \ {m})

StoreGetAllKeys(t) == [i \in 1 .. Cardinality(t) |-> SortedRecords(t)[i].key]
StoreGetAll(t) == [i \in 1 .. Cardinality(t) |-> SortedRecords(t)[i].val]

\* ---- the handle ----
Handle(variant, db, store, promise) ==
    [variant |-> variant, db |-> db, store |-> store, instance |-> 0, promise |-> promise]

\* byOp: the operation whose resolve() issued the request (0: the eager
\* constructor); seen: how many operations had been invoked when the request
\* completed (history)
OpenRequest(h, db, store, byOp) ==
    [h |-> h, db |-> db, store |-> store, status |-> "pending", byOp |-> byOp, seen |-> 0]

Init ==
    /\ handles = <<>>
    /\ reqs = <<>>
    /\ ops = <<>>
    /\ txq = <<>>
    /\ version = [d \in DBNames |-> 0]
    /\ stores = {}
    /\ table = [p \in DBNames \X StoreNames |-> {}]
    /\ faults = 0
    /\ lastw = [p \in DBNames \X StoreNames |-> [k \in Keys |-> 0]]

\* new IDBKV(db, store): the lazy constructor only records its arguments,
\* the eager one calls open(), which issues the open request
constructor(variant, db, store, n) ==
    /\ Len(handles) < n
    /\ IF variant = "eager"
       THEN /\ reqs' = Append(reqs, OpenRequest(Len(handles) + 1, db, store, 0))
            /\ handles' = Append(handles, Handle(variant, db, store, Len(reqs) + 1))
       ELSE /\ reqs' = reqs
            /\ handles' = Append(handles, Handle(variant, db, store, 0))
    /\ UNCHANGED <<ops, txq, version, stores, table, faults, lastw>>

\* ---- one invocation of a public method ----
\* rivals and last are history: the writes to the same records that were in
\* flight while this operation was, and the last resolved write to each of
\* its keys when it was invoked
Op(h, call) ==
    [h |-> h, kind |-> call.kind, key |-> call.key, val |-> call.val, fn |-> call.fn,
     pc |-> "start", step |-> IF call.kind = "update" THEN "read" ELSE "single",
     open |-> 0, read |-> Undef, result |-> Undef, found |-> FALSE, list |-> <<>>,
     error |-> NoError, txs |-> <<>>, conns |-> <<>>,
     rivals |-> {}, last |-> [k \in Keys |-> 0]]

\* Mode with every method asking for a readwrite transaction
Mode_rw(o) == "readwrite"

\* the transaction mode the method asks access() for
Mode(o) ==
    IF o.kind \in ReadKinds \/ (o.kind = "update" /\ o.step = "read")
    THEN "readonly" ELSE "readwrite"

Settled(o) == o.pc \in {"resolved", "rejected"}
Fulfil(o) == [o EXCEPT !.pc = "resolved"]
Reject(o, e) == [o EXCEPT !.pc = "rejected", !.error = e]

\* W is the part of the state a promise continuation may change:
\* [ops, txq, reqs].  hs is the handles and sts the existing object stores.

\* transaction with every handle but the first working on a store of its own
transaction_split(W, id, conn, hs, sts) ==
    LET o == W.ops[id]
        db == W.reqs[conn].db
        store == hs[o.h].store
        own == IF o.h = 1 THEN store ELSE CHOOSE s \in StoreNames : s # store
    IN IF <<db, store>> \in sts
       THEN [W EXCEPT
                !.ops[id] = [o EXCEPT !.pc = "request", !.open = 0,
                                      !.txs = Append(@, Mode(o)),
                                      !.conns = Append(@, conn)],
                !.txq = Append(@, [op |-> id, db |-> db, store |-> own, mode |-> Mode(o)])]
       ELSE [W EXCEPT !.ops[id] =
                Reject([o EXCEPT !.open = 0], [type |-> "NotFoundError", src |-> conn])]

\* db => db.transaction(this.store, mode).objectStore(this.store), then the
\* method's single request on that store; transaction() throws
\* NotFoundError when the database has no such object store
transaction(W, id, conn, hs, sts) ==
    LET o == W.ops[id]
        db == W.reqs[conn].db
        store == hs[o.h].store
    IN IF <<db, store>> \in sts
       THEN [W EXCEPT
                !.ops[id] = [o EXCEPT !.pc = "request", !.open = 0,
                                      !.txs = Append(@, Mode(o)),
                                      !.conns = Append(@, conn)],
                !.txq = Append(@, [op |-> id, db |-> db, store |-> store, mode |-> Mode(o)])]
       ELSE [W EXCEPT !.ops[id] =
                Reject([o EXCEPT !.open = 0], [type |-> "NotFoundError", src |-> conn])]

\* lazy resolve(): the cached instance, or a new open request when no
\* instance is cached yet (whether or not an open request is pending)
resolve(W, id, hs, sts) ==
    LET o == W.ops[id]
        h == hs[o.h]
    IN IF h.instance # 0
       THEN transaction(W, id, h.instance, hs, sts)
       ELSE [W EXCEPT
                !.reqs = Append(@, OpenRequest(o.h, h.db, h.store, id)),
                !.ops[id] = [o EXCEPT !.pc = "opening", !.open = Len(W.reqs) + 1]]

\* eager access(): this.promise.then(...) on the promise of the
\* constructor's open request
promise_then(W, id, hs, sts) ==
    LET o == W.ops[id]
        h == hs[o.h]
        status == W.reqs[h.promise].status
    IN IF status = "success" THEN transaction(W, id, h.promise, hs, sts)
       ELSE IF status = "error"
       THEN [W EXCEPT !.ops[id] = Reject(o, [type |-> "OpenError", src |-> h.promise])]
       ELSE [W EXCEPT !.ops[id] = [o EXCEPT !.pc = "opening", !.open = h.promise]]

\* this.access(mode) of the method running as operation id
access(W, id, hs, sts) ==
    IF hs[W.ops[id].h].variant = "lazy"
    THEN resolve(W, id, hs, sts)
    ELSE promise_then(W, id, hs, sts)

World == [ops |-> ops, txq |-> txq, reqs |-> reqs]

Commit(W) ==
    /\ ops' = W.ops
    /\ txq' = W.txq
    /\ reqs' = W.reqs

\* ---- history bookkeeping ----
TableOf(o) == <<handles[o.h].db, handles[o.h].store>>
Touches(o, k) == o.kind \notin KeyedKinds \/ o.key = k
\* operation w writes records operation o reads or writes
Affects(w, o) ==
    /\ w.kind \in WriteKinds
    /\ TableOf(w) = TableOf(o)
    /\ \E k \in Keys : Touches(w, k) /\ Touches(o, k)

\* the record of a new operation n, and what its invocation adds to the
\* history of the operations in flight
Invoked(os, n) ==
    LET id == Len(os) + 1
        new == [n EXCEPT
                   !.rivals = {i \in 1 .. Len(os) : ~Settled(os[i]) /\ Affects(os[i], n)},
                   !.last = [k \in Keys |-> IF Touches(n, k) THEN lastw[TableOf(n)][k] ELSE 0]]
    IN Append([i \in 1 .. Len(os) |->
                  IF ~Settled(os[i]) /\ Affects(n, os[i])
                  THEN [os[i] EXCEPT !.rivals = @ \cup {id}] ELSE os[i]],
              new)

\* a caller invokes a public method; has and update exist on the lazy
\* variant only
Invoking(h, call) ==
    /\ h \in 1 .. Len(handles)
    /\ call.kind \in {"has", "update"} => handles[h].variant = "lazy"
    /\ LET W == [World EXCEPT !.ops = Invoked(@, Op(h, call))]
       IN Commit(access(W, Len(ops) + 1, handles, stores))
    /\ UNCHANGED <<handles, version, stores, table, faults, lastw>>

\* at most MaxOps invocations in a run
Invoke(h, call) == Len(ops) < MaxOps /\ Invoking(h, call)

\* ---- the host delivers the outcome of an open request ----

\* the continuations of the operations awaiting open request r, in
\* invocation order
RECURSIVE Wake(_, _, _, _, _, _)
Wake(W, i, r, ok, hs, sts) ==
    IF i > Len(W.ops) THEN W
    ELSE IF W.ops[i].pc = "opening" /\ W.ops[i].open = r
    THEN Wake(IF ok THEN transaction(W, i, r, hs, sts)
              ELSE [W EXCEPT !.ops[i] =
                       Reject([@ EXCEPT !.open = 0], [type |-> "OpenError", src |-> r])],
              i + 1, r, ok, hs, sts)
    ELSE Wake(W, i + 1, r, ok, hs, sts)

\* open requests of one database are served in the order they were made
OpenReady(r) ==
    /\ r \in 1 .. Len(reqs)
    /\ reqs[r].status = "pending"
    /\ \A q \in 1 .. (r - 1) : reqs[q].db = reqs[r].db => reqs[q].status # "pending"

Completed(r, status) == [reqs[r] EXCEPT !.status = status, !.seen = Len(ops)]

\* lazy resolve() after its await: this.instance = instance
SetInstance(hs, r) ==
    IF hs[reqs[r].h].variant = "lazy"
    THEN [hs EXCEPT ![reqs[r].h].instance = r]
    ELSE hs

\* onupgradeneeded (the database did not exist): createObjectStore(this.store)
Upgrade(sts, r) ==
    IF version[reqs[r].db] = 0 THEN sts \cup {<<reqs[r].db, reqs[r].store>>} ELSE sts

\* openRequest.onsuccess, after the upgrade if there was one
OpenSuccess(r) ==
    /\ OpenReady(r)
    /\ LET hs == SetInstance(handles, r)
           W == [World EXCEPT !.reqs[r] = Completed(r, "success")]
       IN /\ version' = [version EXCEPT ![reqs[r].db] = 1]
          /\ stores' = Upgrade(stores, r)
          /\ handles' = hs
          /\ Commit(Wake(W, 1, r, TRUE, hs, Upgrade(stores, r)))
    /\ UNCHANGED <<table, faults, lastw>>

\* openRequest.onerror: reject(openRequest.error); a failed open leaves the
\* database as it was
OpenFail(r) ==
    /\ OpenReady(r)
    /\ faults < MaxFaults
    /\ faults' = faults + 1
    /\ Commit(Wake([World EXCEPT !.reqs[r] = Completed(r, "error")], 1, r, FALSE, handles, stores))
    /\ UNCHANGED <<handles, version, stores, table, lastw>>

\* ---- the host delivers the outcome of an object store request ----
Conflict(a, b) ==
    /\ a.db = b.db
    /\ a.store = b.store
    /\ a.mode = "readwrite" \/ b.mode = "readwrite"

\* a transaction starts once no earlier live transaction conflicts with it
Runnable(i) ==
    /\ i \in 1 .. Len(txq)
    /\ \A j \in 1 .. (i - 1) : ~Conflict(txq[j], txq[i])

Remove(q, i) == [j \in 1 .. (Len(q) - 1) |-> IF j < i THEN q[j] ELSE q[j + 1]]

\* Effect with set as store.add: an existing record is kept
Effect_keep(o, t) ==
    IF o.kind = "set" \/ (o.kind = "update" /\ o.step = "write")
    THEN (IF HasRecord(t, o.key) THEN t ELSE StorePut(t, o.key, o.val))
    ELSE IF o.kind = "delete" THEN StoreDelete(t, o.key)
    ELSE IF o.kind = "clear" THEN StoreClear(t)
    ELSE t

\* Effect with delete issuing no request on the store
Effect_nodelete(o, t) ==
    IF o.kind = "set" \/ (o.kind = "update" /\ o.step = "write") THEN StorePut(t, o.key, o.val)
    ELSE IF o.kind = "clear" THEN StoreClear(t)
    ELSE t

\* Effect with clear issuing no request on the store
Effect_noclear(o, t) ==
    IF o.kind = "set" \/ (o.kind = "update" /\ o.step = "write") THEN StorePut(t, o.key, o.val)
    ELSE IF o.kind = "delete" THEN StoreDelete(t, o.key)
    ELSE t

\* Effect with delete removing every record of the store
Effect_wide(o, t) ==
    IF o.kind = "set" \/ (o.kind = "update" /\ o.step = "write") THEN StorePut(t, o.key, o.val)
    ELSE IF o.kind \in {"delete", "clear"} THEN StoreClear(t)
    ELSE t

\* the request of operation o: store.put(val, key), store.delete(key),
\* store.clear(); the read requests change nothing
Effect(o, t) ==
    IF o.kind = "set" \/ (o.kind = "update" /\ o.step = "write") THEN StorePut(t, o.key, o.val)
    ELSE IF o.kind = "delete" THEN StoreDelete(t, o.key)
    ELSE IF o.kind = "clear" THEN StoreClear(t)
    ELSE t

\* OnSuccess with get rejecting when the key has no record
OnSuccess_strict(o, t) ==
    IF o.kind = "get"
    THEN (IF HasRecord(t, o.key) THEN Fulfil([o EXCEPT !.result = StoreGet(t, o.key)])
          ELSE Reject(o, [type |-> "NotFoundError", src |-> 0]))
    ELSE IF o.kind = "has" THEN Fulfil([o EXCEPT !.found = (StoreGetKey(t, o.key) # Undef)])
    ELSE IF o.kind = "keys" THEN Fulfil([o EXCEPT !.list = StoreGetAllKeys(t)])
    ELSE IF o.kind = "values" THEN Fulfil([o EXCEPT !.list = StoreGetAll(t)])
    ELSE Fulfil(o)

\* OnSuccess with keys resolving to the result of getAll
OnSuccess_valuesAsKeys(o, t) ==
    IF o.kind = "get" THEN Fulfil([o EXCEPT !.result = StoreGet(t, o.key)])
    ELSE IF o.kind = "has" THEN Fulfil([o EXCEPT !.found = (StoreGetKey(t, o.key) # Undef)])
    ELSE IF o.kind \in {"keys", "values"} THEN Fulfil([o EXCEPT !.list = StoreGetAll(t)])
    ELSE Fulfil(o)

\* OnSuccess with has testing the value get would resolve to
OnSuccess_hasByValue(o, t) ==
    IF o.kind = "get" THEN Fulfil([o EXCEPT !.result = StoreGet(t, o.key)])
    ELSE IF o.kind = "has" THEN Fulfil([o EXCEPT !.found = (StoreGet(t, o.key) # Undef)])
    ELSE IF o.kind = "keys" THEN Fulfil([o EXCEPT !.list = StoreGetAllKeys(t)])
    ELSE IF o.kind = "values" THEN Fulfil([o EXCEPT !.list = StoreGetAll(t)])
    ELSE Fulfil(o)

\* request.onsuccess of get / has / keys / values / set / delete / clear
OnSuccess(o, t) ==
    IF o.kind = "get" THEN Fulfil([o EXCEPT !.result = StoreGet(t, o.key)])
    ELSE IF o.kind = "has" THEN Fulfil([o EXCEPT !.found = (StoreGetKey(t, o.key) # Undef)])
    ELSE IF o.kind = "keys" THEN Fulfil([o EXCEPT !.list = StoreGetAllKeys(t)])
    ELSE IF o.kind = "values" THEN Fulfil([o EXCEPT !.list = StoreGetAll(t)])
    ELSE Fulfil(o)

\* update_action writing back the value it read instead of the action's
update_action_stale(W, id, v, hs, sts) ==
    LET o == [W.ops[id] EXCEPT !.read = v]
    IN IF o.fn.async THEN [W EXCEPT !.ops[id] = [o EXCEPT !.pc = "fn", !.step = "fn"]]
       ELSE IF o.fn.fails
       THEN [W EXCEPT !.ops[id] = Reject([o EXCEPT !.step = "fn"], [type |-> "FnError", src |-> id])]
       ELSE access([W EXCEPT !.ops[id] = [o EXCEPT !.val = v, !.step = "write"]], id, hs, sts)

\* update after `value = await this.get(key)`: next = await action(value),
\* then this.set(key, next).  A synchronous action that throws rejects
\* update; an asynchronous one leaves update waiting for its promise.
update_action(W, id, v, hs, sts) ==
    LET o == [W.ops[id] EXCEPT !.read = v]
    IN IF o.fn.async THEN [W EXCEPT !.ops[id] = [o EXCEPT !.pc = "fn", !.step = "fn"]]
       ELSE IF o.fn.fails
       THEN [W EXCEPT !.ops[id] = Reject([o EXCEPT !.step = "fn"], [type |-> "FnError", src |-> id])]
       ELSE access([W EXCEPT !.ops[id] = [o EXCEPT !.val = ApplyFn(o.fn, v), !.step = "write"]],
                   id, hs, sts)

RequestSuccess(i) ==
    /\ Runnable(i)
    /\ LET tx == txq[i]
           id == tx.op
           o == ops[id]
           t == table[<<tx.db, tx.store>>]
           W == [World EXCEPT !.txq = Remove(@, i)]
       IN /\ table' = [table EXCEPT ![<<tx.db, tx.store>>] = Effect(o, t)]
          /\ IF o.kind = "update" /\ o.step = "read"
             THEN Commit(update_action(W, id, StoreGet(t, o.key), handles, stores))
             ELSE Commit([W EXCEPT !.ops[id] = OnSuccess(o, t)])
          /\ lastw' = IF o.kind \in WriteKinds /\ ~(o.kind = "update" /\ o.step = "read")
                      THEN [lastw EXCEPT ![TableOf(o)] =
                               [k \in Keys |-> IF Touches(o, k) THEN id ELSE @[k]]]
                      ELSE lastw
    /\ UNCHANGED <<handles, version, stores, faults>>

\* RequestFail dropping the handle's cached connection
RequestFail_poison(i) ==
    /\ Runnable(i)
    /\ faults < MaxFaults
    /\ faults' = faults + 1
    /\ LET id == txq[i].op
       IN /\ Commit([World EXCEPT !.txq = Remove(@, i),
                                  !.ops[id] = Reject(@, [type |-> "RequestError", src |-> id])])
          /\ handles' = [handles EXCEPT ![ops[id].h].instance = 0]
    /\ UNCHANGED <<version, stores, table, lastw>>

\* request.onerror: reject(request.error); the transaction aborts
RequestFail(i) ==
    /\ Runnable(i)
    /\ faults < MaxFaults
    /\ faults' = faults + 1
    /\ LET id == txq[i].op
       IN Commit([World EXCEPT !.txq = Remove(@, i),
                               !.ops[id] = Reject(@, [type |-> "RequestError", src |-> id])])
    /\ UNCHANGED <<handles, version, stores, table, lastw>>

\* FnResolve writing back the value update read instead of the one the
\* action's promise resolved to
FnResolve_stale(id) ==
    /\ id \in 1 .. Len(ops)
    /\ ops[id].pc = "fn"
    /\ ~ops[id].fn.fails
    /\ LET o == ops[id]
           W == [World EXCEPT !.ops[id] = [o EXCEPT !.val = o.read, !.step = "write"]]
       IN Commit(access(W, id, handles, stores))
    /\ UNCHANGED <<handles, version, stores, table, faults, lastw>>

\* FnReject of an update that puts the value it read back before it rejects
FnReject_puts(id) ==
    /\ id \in 1 .. Len(ops)
    /\ ops[id].pc = "fn"
    /\ ops[id].fn.fails
    /\ table' = [table EXCEPT ![TableOf(ops[id])] = StorePut(@, ops[id].key, ops[id].read)]
    /\ Commit([World EXCEPT !.ops[id] =
                  Reject([@ EXCEPT !.txs = Append(@, "readwrite")], [type |-> "FnError", src |-> id])])
    /\ UNCHANGED <<handles, version, stores, faults, lastw>>

\* ---- the promise returned by an asynchronous action settles ----
FnResolve(id) ==
    /\ id \in 1 .. Len(ops)
    /\ ops[id].pc = "fn"
    /\ ~ops[id].fn.fails
    /\ LET o == ops[id]
           W == [World EXCEPT !.ops[id] = [o EXCEPT !.val = ApplyFn(o.fn, o.read), !.step = "write"]]
       IN Commit(access(W, id, handles, stores))
    /\ UNCHANGED <<handles, version, stores, table, faults, lastw>>

FnReject(id) ==
    /\ id \in 1 .. Len(ops)
    /\ ops[id].pc = "fn"
    /\ ops[id].fn.fails
    /\ Commit([World EXCEPT !.ops[id] = Reject(@, [type |-> "FnError", src |-> id])])
    /\ UNCHANGED <<handles, version, stores, table, faults, lastw>>

\* ---- specifications ----
Config(variant, db, store) == [variant |-> variant, db |-> db, store |-> store]

Host ==
    \/ \E r \in 1 .. Len(reqs) : OpenSuccess(r)
    \/ \E r \in 1 .. Len(reqs) : OpenFail(r)
    \/ \E i \in 1 .. Len(txq) : RequestSuccess(i)
    \/ \E i \in 1 .. Len(txq) : RequestFail(i)

Actions ==
    \/ \E id \in 1 .. Len(ops) : FnResolve(id)
    \/ \E id \in 1 .. Len(ops) : FnReject(id)

\* one lazy handle; the point and scan operations
StoreConfigs == {Config("lazy", "db1", "kv")}
StoreCalls == PointCalls \cup ScanCalls
Next ==
    \/ \E c \in StoreConfigs : constructor(c.variant, c.db, c.store, 1)
    \/ \E h \in 1 .. Len(handles), call \in StoreCalls : Invoke(h, call)
    \/ Host

Spec == Init /\ [][Next]_vars

\* one lazy handle; update among reads and writes of the same keys
UpdateKeyCalls ==
    UpdateCalls \cup {Call("get", key, Undef, NoFn) : key \in Keys}
                \cup {Call("set", key, 0, NoFn) : key \in Keys}
NextUpdate ==
    \/ \E c \in StoreConfigs : constructor(c.variant, c.db, c.store, 1)
    \/ \E h \in 1 .. Len(handles), call \in UpdateKeyCalls : Invoke(h, call)
    \/ Host
    \/ Actions

SpecUpdate == Init /\ [][NextUpdate]_vars

\* handles on any database and store; a program uses one of the two
\* implementations
HandleConfigs == {Config(v, db, st) : v \in Variants, db \in DBNames, st \in StoreNames}
HandleCalls == {Call("get", 1, Undef, NoFn), Call("set", 1, 0, NoFn)}
NextHandles ==
    \/ \E c \in HandleConfigs :
          /\ \A h \in 1 .. Len(handles) : handles[h].variant = c.variant
          /\ constructor(c.variant, c.db, c.store, MaxHandles)
    \/ \E h \in 1 .. Len(handles), call \in HandleCalls : Invoke(h, call)
    \/ Host

SpecHandles == Init /\ [][NextHandles]_vars

\* one lazy handle; writes of distinct keys, clear and the scans, one more
\* invocation than elsewhere
ScanKeyCalls == ScanCalls \cup {Call("set", key, key - 1, NoFn) : key \in Keys}
NextScan ==
    \/ \E c \in StoreConfigs : constructor(c.variant, c.db, c.store, 1)
    \/ \E h \in 1 .. Len(handles), call \in ScanKeyCalls :
          Len(ops) < MaxOps + 1 /\ Invoking(h, call)
    \/ Host

SpecScan == Init /\ [][NextScan]_vars

\* one lazy handle; all eight methods on one key, a set of the
\* absent-marker among them
EveryCalls ==
    {c \in PointCalls \cup UpdateCalls : c.key = 1} \cup ScanCalls
        \cup {Call("set", 1, Undef, NoFn)}
NextEvery ==
    \/ \E c \in StoreConfigs : constructor(c.variant, c.db, c.store, 1)
    \/ \E h \in 1 .. Len(handles), call \in EveryCalls : Invoke(h, call)
    \/ Host
    \/ Actions

SpecEvery == Init /\ [][NextEvery]_vars

\* the two implementations side by side: an eager handle on one database and
\* a lazy handle on another, constructed together and given the same calls
\* of the shared methods at the same moments; each host is free
PairCalls == HandleCalls \cup {Call("delete", 1, Undef, NoFn)}
ConstructBoth ==
    /\ handles = <<>>
    /\ handles' = <<Handle("eager", "db1", "kv", 1), Handle("lazy", "db2", "kv", 0)>>
    /\ reqs' = <<OpenRequest(1, "db1", "kv", 0)>>
    /\ UNCHANGED <<ops, txq, version, stores, table, faults, lastw>>

InvokeBoth(call) ==
    /\ Len(handles) = 2
    /\ Len(ops) < 2 * MaxOps
    /\ LET E == access([World EXCEPT !.ops = Invoked(@, Op(1, call))],
                       Len(ops) + 1, handles, stores)
           L == access([E EXCEPT !.ops = Invoked(@, Op(2, call))],
                       Len(ops) + 2, handles, stores)
       IN Commit(L)
    /\ UNCHANGED <<handles, version, stores, table, faults, lastw>>

NextPair ==
    \/ ConstructBoth
    \/ \E call \in PairCalls : InvokeBoth(call)
    \/ Host

SpecPair == Init /\ [][NextPair]_vars

\* ---- reading the history ----
Ids == 1 .. Len(ops)
Resolved(id) == ops[id].pc = "resolved"
Rejected(id) == ops[id].pc = "rejected"

\* what a write leaves under its key: set and update leave a record,
\* delete and clear (and no write at all, w = 0) leave none
Present(w) == w # 0 /\ ops[w].kind \in {"set", "update"}
Seen(w) == IF Present(w) THEN ops[w].val ELSE Undef

\* the last write to the key of operation id that had resolved when id was
\* invoked
Before(id) == ops[id].last[ops[id].key]
\* no write to the records of operation id was in flight while id was
Alone(id) == ops[id].rivals = {}
\* a get or has that resolved with no write to its key in flight
QuietRead(id) == ops[id].kind \in {"get", "has"} /\ Resolved(id) /\ Alone(id)

\* errors the host signals (as opposed to errors this code or its caller
\* raises)
HostErrors == {"OpenError", "RequestError"}

\* C1: on one handle, once set(k, v) has resolved and no other write to k is
\* in flight, get(k) resolves to v and has(k) to true (so a later set(k, v2)
\* makes get(k) resolve to v2), and no store ever holds two records with the
\* same key.
C1_SetThenGet ==
    /\ \A g \in Ids :
          (QuietRead(g) /\ Before(g) # 0 /\ ops[Before(g)].kind = "set"
                        /\ ops[Before(g)].h = ops[g].h)
          => /\ ops[g].kind = "get" => ops[g].result = ops[Before(g)].val
             /\ ops[g].kind = "has" => ops[g].found
    /\ \A p \in DBNames \X StoreNames : \A r1, r2 \in table[p] : r1.key = r2.key => r1 = r2

\* set(k, v1), then set(k, v2) with v2 # v1, then get(k) resolving to v2
C1_Witness ==
    \E g \in Ids :
        /\ QuietRead(g) /\ ops[g].kind = "get"
        /\ Before(g) # 0 /\ ops[Before(g)].kind = "set"
        /\ Before(Before(g)) # 0 /\ ops[Before(Before(g))].kind = "set"
        /\ ops[Before(Before(g))].val # ops[Before(g)].val
        /\ ops[g].result = ops[Before(g)].val

\* C2: one handle issues at most one open request, however many operations
\* are invoked before the first open completes.
C2_SingleOpen ==
    \A h \in 1 .. Len(handles) : Cardinality({r \in 1 .. Len(reqs) : reqs[r].h = h}) <= 1

\* two updates with v => v + 1 of one key that overlapped, both invoked
\* after a resolved set(k, 0) and no other write to k since
Racing(a, b) ==
    /\ a # b
    /\ ops[a].kind = "update" /\ ops[b].kind = "update"
    /\ Resolved(a) /\ Resolved(b)
    /\ ops[a].h = ops[b].h /\ ops[a].key = ops[b].key
    /\ ops[a].fn.f = "inc" /\ ops[b].fn.f = "inc"
    /\ ops[a].rivals = {b} /\ ops[b].rivals = {a}
    /\ Before(a) = Before(b) /\ Before(a) # 0
    /\ ops[Before(a)].kind = "set" /\ ops[Before(a)].val = 0
    /\ lastw[TableOf(ops[a])][ops[a].key] \in {a, b}

\* C3: update is a read transaction followed by a separate write
\* transaction: two concurrent update(k, v => v + 1) starting from
\* get(k) = 0 end with get(k) = 1 exactly when both read 0 (the lost
\* update), and with get(k) = 2 otherwise.
C3_LostUpdate ==
    \A a, b \in Ids :
        Racing(a, b) =>
            LET v == StoreGet(table[TableOf(ops[a])], ops[a].key)
            IN /\ v \in {1, 2}
               /\ v = 1 <=> (ops[a].read = 0 /\ ops[b].read = 0)

\* the lost update: both updates read 0 and the key ends at 1
C3_Witness ==
    \E a, b \in Ids :
        /\ Racing(a, b)
        /\ ops[a].read = 0 /\ ops[b].read = 0
        /\ StoreGet(table[TableOf(ops[a])], ops[a].key) = 1

\* an interleaving of the same two updates that ends at 2
C3_Serial ==
    \E a, b \in Ids :
        Racing(a, b) /\ StoreGet(table[TableOf(ops[a])], ops[a].key) = 2

\* the first open request of handle h
FirstOpen(h) == CHOOSE r \in 1 .. Len(reqs) : reqs[r].h = h /\ \A q \in 1 .. (r - 1) : reqs[q].h # h
HasOpen(h) == \E r \in 1 .. Len(reqs) : reqs[r].h = h

\* C4: once the first open request of a handle has failed, every operation
\* invoked on the handle afterwards fails with that error, and none of them
\* issues another open request.
C4_NoReconnect ==
    \A h \in 1 .. Len(handles) :
        (HasOpen(h) /\ reqs[FirstOpen(h)].status = "error") =>
            \A id \in Ids :
                (ops[id].h = h /\ id > reqs[FirstOpen(h)].seen) =>
                    /\ \A r \in 1 .. Len(reqs) : reqs[r].byOp # id
                    /\ Settled(ops[id]) =>
                          /\ Rejected(id)
                          /\ ops[id].error = [type |-> "OpenError", src |-> FirstOpen(h)]

\* C5: whatever the handles' database and store names, the handle's object
\* store exists when an operation opens its transaction (transaction() never
\* throws NotFoundError).
C5_TableExists ==
    \A id \in Ids : ops[id].error.type # "NotFoundError"

\* C6: a handle has issued no open request before its first public method
\* is invoked.
C6_NoOpenBeforeUse ==
    \A r \in 1 .. Len(reqs) : \E id \in Ids : ops[id].h = reqs[r].h

\* the records of the store of operation id, and its key's record in them
Records(id) == table[TableOf(ops[id])]
Untouched(id) == lastw[TableOf(ops[id])][ops[id].key] = Before(id)

\* C7: with no concurrent writer to k, update(k, fn) reads the current value
\* of k (the absent-marker when k has no record), and after it resolved k
\* has a record whose value is fn(old value): get(k) resolves to it and
\* has(k) to true, whether fn returned the value or a promise of it.
C7_Update ==
    \A u \in Ids :
        (ops[u].kind = "update" /\ Resolved(u) /\ Alone(u)) =>
            LET old == Seen(Before(u))
                k == ops[u].key
            IN /\ ops[u].read = old
               /\ lastw[TableOf(ops[u])][k] = u =>
                     /\ HasRecord(Records(u), k)
                     /\ StoreGet(Records(u), k) = ApplyFn(ops[u].fn, old)
               /\ \A g \in Ids :
                     (QuietRead(g) /\ ops[g].h = ops[u].h /\ ops[g].key = k /\ Before(g) = u) =>
                         /\ ops[g].kind = "get" => ops[g].result = ApplyFn(ops[u].fn, old)
                         /\ ops[g].kind = "has" => ops[g].found

\* set(k, 0), then update(k, async v => v + 1), then get(k) resolving to 1
C7_Witness ==
    \E u, g \in Ids :
        /\ ops[u].kind = "update" /\ Resolved(u) /\ Alone(u) /\ ops[u].fn.async
        /\ Present(Before(u))
        /\ QuietRead(g) /\ ops[g].kind = "get" /\ ops[g].key = ops[u].key /\ Before(g) = u
        /\ ops[g].result = ops[Before(u)].val + 1

\* the same with a synchronous action
C7_Sync ==
    \E u, g \in Ids :
        /\ ops[u].kind = "update" /\ Resolved(u) /\ Alone(u) /\ ~ops[u].fn.async
        /\ Present(Before(u))
        /\ QuietRead(g) /\ ops[g].kind = "get" /\ ops[g].key = ops[u].key /\ Before(g) = u
        /\ ops[g].result = ops[Before(u)].val + 1

\* an update that rejected in its read step or in its action
FailedEarly(u) == ops[u].kind = "update" /\ Rejected(u) /\ ops[u].step \in {"read", "fn"}

\* C8: an update whose read step failed or whose action threw / rejected
\* has opened no read-write transaction and issued no put, and has left the
\* record of its key as it was.
C8_NoWriteOnFailure ==
    \A u \in Ids :
        FailedEarly(u) =>
            /\ \A i \in 1 .. Len(ops[u].txs) : ops[u].txs[i] = "readonly"
            /\ \A i \in 1 .. Len(txq) : txq[i].op # u
            /\ (Alone(u) /\ Untouched(u)) =>
                  /\ HasRecord(Records(u), ops[u].key) <=> Present(Before(u))
                  /\ StoreGet(Records(u), ops[u].key) = Seen(Before(u))

\* set(k, 0), then update(k, fn) with fn's promise rejecting: k still 0
C8_Witness ==
    \E u \in Ids :
        /\ FailedEarly(u) /\ ops[u].step = "fn" /\ ops[u].fn.async
        /\ Alone(u) /\ Untouched(u) /\ Present(Before(u))
        /\ StoreGet(Records(u), ops[u].key) = ops[Before(u)].val

\* an update whose get request failed
C8_ReadFailed ==
    \E u \in Ids :
        /\ FailedEarly(u) /\ ops[u].step = "read" /\ ops[u].error.type = "RequestError"
        /\ Alone(u) /\ Untouched(u) /\ Present(Before(u))

\* C9: after set(k, v) and then delete(k) completed, get(k) resolves to the
\* absent-marker and has(k) to false; delete(k) of a key with no record
\* fails only if the host signals an error, and when it resolves the store
\* is as it was.
C9_Delete ==
    /\ \A g \in Ids :
          (QuietRead(g) /\ Before(g) # 0 /\ ops[Before(g)].kind = "delete") =>
              /\ ops[g].kind = "get" => ops[g].result = Undef
              /\ ops[g].kind = "has" => ~ops[g].found
    /\ \A d \in Ids :
          (ops[d].kind = "delete" /\ Settled(ops[d]) /\ Alone(d) /\ ~Present(Before(d))) =>
              /\ Rejected(d) => ops[d].error.type \in HostErrors
              /\ (Resolved(d) /\ lastw[TableOf(ops[d])][ops[d].key] = d) =>
                    \A k \in Keys :
                        /\ HasRecord(Records(d), k) <=>
                              (k # ops[d].key /\ Present(lastw[TableOf(ops[d])][k]))
                        /\ k # ops[d].key =>
                              StoreGet(Records(d), k) = Seen(lastw[TableOf(ops[d])][k])

\* set(k, v), then delete(k), then get(k) resolving to the absent-marker
C9_Witness ==
    \E g \in Ids :
        /\ QuietRead(g) /\ ops[g].kind = "get" /\ ops[g].result = Undef
        /\ Before(g) # 0 /\ ops[Before(g)].kind = "delete" /\ Resolved(Before(g))
        /\ Before(Before(g)) # 0 /\ ops[Before(Before(g))].kind = "set"

\* delete(k) resolving on a key that never had a record
C9_NeverWritten ==
    \E d \in Ids : ops[d].kind = "delete" /\ Resolved(d) /\ Alone(d) /\ Before(d) = 0

\* C10: for a key with no record (never written, or removed by delete or
\* clear), get(k) and has(k) fail only if the host signals an error, and
\* resolve to the absent-marker and to false.
C10_Absent ==
    \A g \in Ids :
        (ops[g].kind \in {"get", "has"} /\ Settled(ops[g]) /\ Alone(g) /\ ~Present(Before(g))) =>
            /\ Rejected(g) => ops[g].error.type \in HostErrors
            /\ (Resolved(g) /\ ops[g].kind = "get") => ops[g].result = Undef
            /\ (Resolved(g) /\ ops[g].kind = "has") => ~ops[g].found

\* set(k, v), then clear(), then has(k) resolving to false
C10_Witness ==
    \E g \in Ids :
        /\ QuietRead(g) /\ ops[g].kind = "has" /\ ~ops[g].found
        /\ Before(g) # 0 /\ ops[Before(g)].kind = "clear"
        /\ Present(ops[Before(g)].last[ops[g].key])

\* get(k) resolving to the absent-marker on a key never written
C10_NeverWritten ==
    \E g \in Ids : QuietRead(g) /\ ops[g].kind = "get" /\ Before(g) = 0 /\ ops[g].result = Undef

\* a keys() or values() that resolved with no write to its store in flight
QuietScan(id) == ops[id].kind \in {"keys", "values"} /\ Resolved(id) /\ Alone(id)
\* the keys that had a record when operation id was invoked
KeysBefore(id) == {k \in Keys : Present(ops[id].last[k])}
\* the position of key k among the keys S in ascending order
Rank(k, S) == Cardinality({j \in S : j <= k})

\* C11: once clear() has completed and no write is in flight, keys() and
\* values() resolve to the empty sequence, however many keys had been
\* written.
C11_Clear ==
    \A g \in Ids :
        (QuietScan(g) /\ \E c \in Ids : ops[c].kind = "clear" /\ \A k \in Keys : ops[g].last[k] = c)
        => ops[g].list = <<>>

\* set(1, _) and set(2, _), then clear(), then keys() resolving to <<>>
C11_Witness ==
    \E g, c \in Ids :
        /\ QuietScan(g) /\ ops[g].kind = "keys" /\ ops[g].list = <<>>
        /\ ops[c].kind = "clear" /\ \A k \in Keys : ops[g].last[k] = c
        /\ \A k \in Keys : Present(ops[c].last[k])

\* values() after a clear of one written key
C11_Values ==
    \E g, c \in Ids :
        /\ QuietScan(g) /\ ops[g].kind = "values" /\ ops[g].list = <<>>
        /\ ops[c].kind = "clear" /\ \A k \in Keys : ops[g].last[k] = c
        /\ \E k \in Keys : Present(ops[c].last[k])

\* C12: on a quiescent store keys() resolves to the keys that have a
\* record, each once and in ascending order whatever the order of the
\* writes, and values() to the values stored under them, in the same order.
C12_Scan ==
    \A g \in Ids :
        QuietScan(g) =>
            /\ Len(ops[g].list) = Cardinality(KeysBefore(g))
            /\ \A k \in KeysBefore(g) :
                  ops[g].list[Rank(k, KeysBefore(g))] =
                      IF ops[g].kind = "keys" THEN k ELSE Seen(ops[g].last[k])

\* set(2, _) before set(1, _), then keys() resolving to <<1, 2>>
C12_Witness ==
    \E g \in Ids :
        /\ QuietScan(g) /\ ops[g].kind = "keys" /\ ops[g].list = <<1, 2>>
        /\ ops[g].last[2] < ops[g].last[1]

\* values() resolving to the two values in key order
C12_Values ==
    \E g \in Ids :
        /\ QuietScan(g) /\ ops[g].kind = "values" /\ Len(ops[g].list) = 2
        /\ ops[g].last[2] < ops[g].last[1]
        /\ ops[g].list = <<ops[ops[g].last[1]].val, ops[ops[g].last[2]].val>>

\* write f had rejected with the host's request error when operation g was
\* invoked on the same handle and the same records
FailedBefore(f, g) ==
    /\ f < g /\ ops[f].h = ops[g].h
    /\ Rejected(f) /\ ops[f].error = [type |-> "RequestError", src |-> f]
    /\ Affects(ops[f], ops[g]) /\ f \notin ops[g].rivals

\* C13: after an operation's request failed on an opened connection, the
\* handle keeps its cached connection and a later operation on it issues no
\* open request, gets its transaction on the cached connection and, when it
\* settles, resolves unless its own request fails.
C13_NotPoisoned ==
    \A f, g \in Ids :
        FailedBefore(f, g) =>
            /\ handles[ops[g].h].instance # 0
            /\ ops[g].open = 0
            /\ ops[g].conns # <<>>
            /\ Settled(ops[g]) =>
                  \/ Resolved(g)
                  \/ ops[g].error = [type |-> "RequestError", src |-> g]
                  \/ ops[g].error.type = "FnError"

\* set(1, _) rejected by the host, then get(1) resolved on the same handle
C13_Witness ==
    \E f, g \in Ids :
        /\ FailedBefore(f, g)
        /\ ops[f].kind = "set" /\ ops[g].kind = "get" /\ Resolved(g)

\* C14: while the first open request of a handle is pending, no operation
\* invoked on the handle has settled, and every one of them waits for that
\* request (none has issued an open request of its own).
C14_OnePending ==
    \A h \in 1 .. Len(handles) :
        (HasOpen(h) /\ reqs[FirstOpen(h)].status = "pending") =>
            \A id \in Ids :
                ops[id].h = h =>
                    /\ ~Settled(ops[id])
                    /\ ops[id].pc = "opening"
                    /\ ops[id].open = FirstOpen(h)

\* get g resolved with no write in flight, invoked after set s on another
\* handle of the same database and store had resolved as the last write
SetElsewhere(s, g) ==
    /\ QuietRead(g) /\ ops[g].kind = "get"
    /\ s = Before(g) /\ s # 0 /\ ops[s].kind = "set"
    /\ ops[s].h # ops[g].h

\* C15: handles with the same database and store names work on one store:
\* once set(k, v) on one handle has resolved, a get(k) invoked afterwards on
\* another resolves to v, whichever handle's connection was opened first.
C15_Shared ==
    \A s, g \in Ids : SetElsewhere(s, g) => ops[g].result = ops[s].val

\* the connection of the reading handle was opened before the writing one's
C15_Witness ==
    \E s, g \in Ids :
        /\ SetElsewhere(s, g) /\ ops[g].result = ops[s].val
        /\ ops[g].conns[1] < ops[s].conns[1]

\* the connection of the writing handle was opened first
C15_WriterFirst ==
    \E s, g \in Ids :
        /\ SetElsewhere(s, g) /\ ops[g].result = ops[s].val
        /\ ops[s].conns[1] < ops[g].conns[1]

\* the live transactions opened by operation id
TxsOf(id) == {i \in 1 .. Len(txq) : txq[i].op = id}
\* operation id never got a connection, or its store was missing
NoAccess(id) == Rejected(id) /\ ops[id].error.type \in {"OpenError", "NotFoundError"}
RequestFailed(id) == Rejected(id) /\ ops[id].error = [type |-> "RequestError", src |-> id]
FnFailed(id) == Rejected(id) /\ ops[id].error.type = "FnError"

\* C16 as stated: every settled get, set, delete, clear, keys, values or has
\* has opened exactly one transaction, readonly for the reads and readwrite
\* for the writes, and every settled update exactly two, a readonly and then
\* a readwrite one.
C16_AlwaysOne ==
    \A id \in Ids :
        Settled(ops[id]) =>
            ops[id].txs =
                IF ops[id].kind = "update" THEN <<"readonly", "readwrite">>
                ELSE IF ops[id].kind \in {"get", "has", "keys", "values"} THEN <<"readonly">>
                ELSE <<"readwrite">>

\* the transactions an operation of this kind opens when nothing fails
FullTxs(kind) ==
    IF kind = "update" THEN <<"readonly", "readwrite">>
    ELSE IF kind \in {"get", "has", "keys", "values"} THEN <<"readonly">>
    ELSE <<"readwrite">>
\* s is t or s is t without its last element
Prefix(s, t) == Len(s) <= Len(t) /\ \A i \in 1 .. Len(s) : s[i] = t[i]

\* C16 (amended): an operation opens no transaction when it gets no
\* connection (the open failed or the store is missing); otherwise a get,
\* set, delete, clear, keys, values or has opens exactly one transaction on
\* the handle's store, readonly for the reads and readwrite for the writes,
\* and settles on the outcome of its one request; an update opens a
\* readonly transaction and, only when its read succeeded and its transform
\* returned, a readwrite one after it.  A transaction belongs to one
\* operation, an operation has at most one live transaction, none once it
\* has settled, and a settled operation never changes again.
C16_Transactions ==
    /\ [](\A id \in Ids :
            /\ Prefix(ops[id].txs, FullTxs(ops[id].kind))
            /\ Len(ops[id].conns) = Len(ops[id].txs)
            /\ Cardinality(TxsOf(id)) = IF ops[id].pc = "request" THEN 1 ELSE 0
            /\ \A i \in TxsOf(id) :
                  /\ <<txq[i].db, txq[i].store>> = TableOf(ops[id])
                  /\ txq[i].mode = ops[id].txs[Len(ops[id].txs)]
            /\ ops[id].pc = "opening" => ops[id].txs = <<>>
            /\ ops[id].pc = "fn" => ops[id].txs = <<"readonly">>
            /\ Settled(ops[id]) => Resolved(id) \/ NoAccess(id) \/ RequestFailed(id) \/ FnFailed(id)
            /\ Resolved(id) => ops[id].txs = FullTxs(ops[id].kind)
            /\ NoAccess(id) => ops[id].txs = <<>>
            /\ RequestFailed(id) => ops[id].txs # <<>>
            /\ (RequestFailed(id) /\ ops[id].kind # "update") => ops[id].txs = FullTxs(ops[id].kind)
            /\ FnFailed(id) => ops[id].kind = "update" /\ ops[id].txs = <<"readonly">>)
    /\ [][\A id \in Ids : Settled(ops[id]) => ops'[id] = ops[id]]_vars

\* an update that resolved after its two transactions, a has that resolved
\* after its one, and a get rejected by its request
C16_Witness ==
    \E u, g, f \in Ids :
        /\ ops[u].kind = "update" /\ Resolved(u) /\ ops[u].txs = <<"readonly", "readwrite">>
        /\ ops[g].kind = "has" /\ Resolved(g) /\ ops[g].txs = <<"readonly">>
        /\ ops[f].kind = "get" /\ RequestFailed(f) /\ ops[f].txs = <<"readonly">>

\* an update whose transform threw: one transaction only
C16_FnFailed ==
    \E u \in Ids : ops[u].kind = "update" /\ FnFailed(u) /\ ops[u].txs = <<"readonly">>

\* C17: once a handle has cached a connection, the cached connection never
\* changes, and an operation invoked afterwards gets its transaction on that
\* connection without an open request.
C17_ConnectionKept ==
    [][\A h \in 1 .. Len(handles) :
          handles[h].instance # 0 =>
              /\ handles'[h].instance = handles[h].instance
              /\ \A id \in (Len(ops) + 1) .. Len(ops') :
                    ops'[id].h = h =>
                        /\ Len(reqs') = Len(reqs)
                        /\ \A i \in 1 .. Len(ops'[id].conns) :
                              ops'[id].conns[i] = handles[h].instance]_vars

\* what the caller of a settled operation observes
Outcome(id) ==
    [pc |-> ops[id].pc, result |-> ops[id].result, list |-> ops[id].list,
     error |-> ops[id].error.type]

\* C18: given the same calls of the shared methods at the same moments, and
\* hosts that signal no error, the eager and the lazy implementation settle
\* corresponding calls with the same results, and once every call has
\* settled the two stores hold the same records.
C18_Equivalent ==
    faults = 0 =>
        /\ \A e, l \in Ids :
              (ops[e].h = 1 /\ l = e + 1 /\ Settled(ops[e]) /\ Settled(ops[l]))
              => Outcome(e) = Outcome(l)
        /\ (\A id \in Ids : Settled(ops[id])) => table[<<"db1", "kv">>] = table[<<"db2", "kv">>]

\* the records of store p whose key is not k
Others(t, p, k) == {r \in t[p] : r.key # k}
\* operation id issued no open request: it found the connection cached
Cached(id) == \A r \in 1 .. Len(reqs) : reqs[r].byOp # id

\* C19: a step in which get, has, keys or values settles, or in which any
\* operation rejects, leaves every store as it was; a step in which set(k, v)
\* or delete(k) resolves leaves every other store and the record of every
\* other key as they were; and no other step changes a store.
C19_Frame ==
    [][/\ \A id \in Ids :
             (~Settled(ops[id]) /\ Settled(ops'[id])) =>
                 /\ ops[id].kind \in {"get", "has", "keys", "values"} => table' = table
                 /\ ops'[id].pc = "rejected" => table' = table
                 /\ ops[id].kind \in {"set", "delete"} =>
                       \A p \in DOMAIN table :
                           /\ p # TableOf(ops[id]) => table'[p] = table[p]
                           /\ Others(table', p, ops[id].key) = Others(table, p, ops[id].key)
       /\ table' # table =>
             \E id \in Ids :
                 /\ ops[id].kind \in {"set", "delete", "clear", "update"}
                 /\ ops[id].pc = "request" /\ ops'[id].pc = "resolved"]_vars

\* set(2, v) and then delete(1), both on the cached connection, have
\* resolved and key 2 still holds v
C19_Witness ==
    \E w, d \in Ids :
        /\ w < d /\ Cached(w) /\ Cached(d)
        /\ ops[w].kind = "set" /\ ops[w].key = 2 /\ Resolved(w)
        /\ ops[d].kind = "delete" /\ ops[d].key = 1 /\ Resolved(d)
        /\ StoreGet(Records(w), 2) = ops[w].val

\* the elements of a sequence
Range(s) == {s[i] : i \in 1 .. Len(s)}

\* C20: has(k) resolves to true exactly when the store holds a record with
\* key k at that moment, whatever the value in it: with no write to k in
\* flight, has(k) is true iff the last resolved write to k was a set or an
\* update, and has(k) and a keys() with the same writes behind them agree on
\* whether k is a key, also when the value set is the absent-marker.
C20_Has ==
    /\ [](\A g \in Ids :
            (QuietRead(g) /\ ops[g].kind = "has") =>
                /\ ops[g].found <=> Present(Before(g))
                /\ \A q \in Ids :
                      (QuietScan(q) /\ ops[q].kind = "keys" /\ TableOf(ops[q]) = TableOf(ops[g])
                          /\ ops[q].last[ops[g].key] = Before(g))
                      => (ops[g].found <=> ops[g].key \in Range(ops[q].list)))
    /\ [][\A g \in Ids :
            (ops[g].kind = "has" /\ ~Settled(ops[g]) /\ Resolved(g)')
            => (ops'[g].found <=> \E r \in Records(g) : r.key = ops[g].key)]_vars

\* after set(1, undefined): has(1) resolved to true and get(1) to the
\* absent-marker
C20_Witness ==
    \E s, g, r \in Ids :
        /\ ops[s].kind = "set" /\ ops[s].val = Undef
        /\ QuietRead(g) /\ ops[g].kind = "has" /\ Before(g) = s /\ ops[g].found
        /\ QuietRead(r) /\ ops[r].kind = "get" /\ Before(r) = s /\ ops[r].result = Undef

\* has(1) and keys() agreeing after set(1, undefined)
C20_Keys ==
    \E s, g, q \in Ids :
        /\ ops[s].kind = "set" /\ ops[s].val = Undef
        /\ QuietRead(g) /\ ops[g].kind = "has" /\ Before(g) = s /\ ops[g].found
        /\ QuietScan(q) /\ ops[q].kind = "keys" /\ ops[q].last[1] = s /\ ops[q].list = <<1>>

====
